---- MODULE Spec2Model ----
(***************************************************************************)
(* Recording-session process manager of ClipForge (src-tauri/src/lib.rs).  *)
(*                                                                         *)
(* Spec     : the session registry and the start/stop commands, run by     *)
(*            concurrent request threads against encoder subprocesses.     *)
(* SpecPip  : the picture-in-picture command line built by                 *)
(*            start_screen_webcam_recording, as a function of its options. *)
(* SpecDevices : list_audio_devices, as a function of the diagnostic text  *)
(*            the device listing prints.                                   *)
(* SpecExport : export_video, step by step against the files on disk.      *)
(***************************************************************************)
EXTENDS Integers, Sequences, FiniteSets, TLC

\* ---------------------------------------------------------------- bounds
NumThreads == 2     \* concurrent request threads
MaxProcs == 2       \* encoder subprocesses existing at one time
NumPids == 2        \* size of the operating system's process-id space
MaxTs == 1          \* distinct wall-clock seconds a default path can embed
MaxIdx == 1         \* largest device index offered to the command builder
MaxLines == 5       \* lines of diagnostic text given to the device parser
MaxBytes == 2       \* length of an exported file
MaxByte == 1        \* largest byte value in an exported file
PipeCap == 1        \* writes the stderr pipe holds before the next one blocks

Threads == 1..NumThreads
Handles == 1..MaxProcs
Pids == 1..NumPids
Timestamps == 1..MaxTs

\* ----------------------------------------------------------------- paths
\* An output path is <<origin, name, timestamp>>: a caller-supplied path, or
\* the generated temp-directory path clipforge-<mode>-<timestamp>.mp4.
None == <<"none", "none", 0>>
UserPaths == {<<"user", "a.mp4", 0>>}
PathOptions == UserPaths \cup {None}

DefaultPath(mode, ts) == <<"tmp", mode, ts>>

OutputPath(output_path, mode, ts) ==
    IF output_path # None THEN output_path ELSE DefaultPath(mode, ts)

VARIABLES
    registry,   \* RECORDING_PROCESSES: process id -> (child handle, output path)
    lock,       \* thread holding the registry mutex, 0 when free
    procs,      \* subprocesses by child handle; the dropped handle of a reaped
                \* subprocess is free
    th,         \* per request thread: command in progress and its locals
    unix,       \* cfg(unix): the build has the SIGINT graceful-stop block
    returned,   \* RecordingResults of successful starts in order, until the first
                \* stop request
    stopIssued, \* a stop request has been made
    pipIn,      \* SpecPip: options given to the PiP command builder
    pipArgs,    \* SpecPip: argument vector it built
    stderr,     \* SpecDevices: lines of the diagnostic text ffmpeg printed
    listed,     \* SpecDevices: result of list_audio_devices
    files,      \* SpecExport: content of each path, or Absent
    exp         \* SpecExport: the export_video call in progress

\* The session manager's variables, and those of the stand-alone commands.
session == <<registry, lock, procs, th, unix, returned, stopIssued>>

standalone == <<pipIn, pipArgs, stderr, listed, files, exp>>

vars == <<session, standalone>>

\* ------------------------------------------------- PiP command builder
\* Option<T>: <<>> is None, <<x>> is Some(x).
Opt(S) == {<<>>} \cup {<<x>> : x \in S}

Indices == 0..MaxIdx
Positions == {"bottom-right", "bottom-left", "top-right", "top-left",
              "center", "Top-Left"}
Sizes == {"25%"}

\* The decimal text of a device index or timestamp, as format!("{}") gives it.
Digits == <<"0", "1", "2", "3", "4", "5", "6", "7", "8", "9">>

Show(n) == IF n < 10 THEN Digits[n + 1] ELSE "many"

PipInputs ==
    [output_path : PathOptions, ts : Timestamps,
     webcam_device_index : Opt(Indices), pip_position : Opt(Positions),
     pip_size : Opt(Sizes), audio_device_index : Opt(Indices)]

NoInput == [output_path |-> None, ts |-> 0, webcam_device_index |-> <<>>,
            pip_position |-> <<>>, pip_size |-> <<>>,
            audio_device_index |-> <<>>]

\* pip_position.as_deref().unwrap_or("bottom-right")
Position(pip_position) ==
    IF pip_position = <<>> THEN "bottom-right" ELSE pip_position[1]

\* Variant: the fallback arm names the top-left corner.
overlay_pos_FallbackTopLeft(position) ==
    CASE position = "bottom-right" -> "W-w-10:H-h-10"
      [] position = "bottom-left" -> "10:H-h-10"
      [] position = "top-right" -> "W-w-10:10"
      [] OTHER -> "10:10"

\* let overlay_pos = match position { .. }
overlay_pos(position) ==
    CASE position = "bottom-right" -> "W-w-10:H-h-10"
      [] position = "bottom-left" -> "10:H-h-10"
      [] position = "top-right" -> "W-w-10:10"
      [] position = "top-left" -> "10:10"
      [] OTHER -> "W-w-10:H-h-10"

\* format!("[1:v]scale={}:{}[webcam];[0:v][webcam]overlay={}[v]", ..), as the
\* pieces of the formatted text.
FilterComplex(pip_width, pip_height, overlay) ==
    <<"[1:v]scale=", pip_width, ":", pip_height,
      "[webcam];[0:v][webcam]overlay=", overlay, "[v]">>

\* Each argument is the sequence of the pieces of its text.
Lit(text) == <<text>>

AudioArgs(audio_device_index) ==
    IF audio_device_index = <<>> THEN <<>>
    ELSE <<Lit("-map"), Lit("0:a"), Lit("-c:a"), Lit("aac"), Lit("-b:a"),
           Lit("192k"), Lit("-ar"), Lit("48000"), Lit("-ac"), Lit("2")>>

\* The argument vector start_screen_webcam_recording hands to ffmpeg.
PipCommand(in) ==
    LET output == OutputPath(in.output_path, "pip", in.ts)
        webcam_idx == IF in.webcam_device_index = <<>> THEN 0
                      ELSE in.webcam_device_index[1]
        screen_device == IF in.audio_device_index = <<>> THEN <<"4:">>
                         ELSE <<"4:", Show(in.audio_device_index[1])>>
        webcam_device == <<Show(webcam_idx), ":">>
        filter == FilterComplex("320", "240",
                                overlay_pos(Position(in.pip_position)))
    IN <<Lit("-f"), Lit("avfoundation"), Lit("-capture_cursor"), Lit("1"),
         Lit("-framerate"), Lit("30"), Lit("-i"), screen_device,
         Lit("-f"), Lit("avfoundation"), Lit("-framerate"), Lit("30"),
         Lit("-video_size"), Lit("1280x720"), Lit("-i"), webcam_device,
         Lit("-filter_complex"), filter, Lit("-map"), Lit("[v]")>>
       \o AudioArgs(in.audio_device_index)
       \o <<Lit("-r"), Lit("30"), Lit("-c:v"), Lit("libx264"),
            Lit("-preset"), Lit("fast"), Lit("-crf"), Lit("23"),
            Lit("-pix_fmt"), Lit("yuv420p"), Lit("-y"),
            <<output[1], output[2], Show(output[3])>>>>

\* ------------------------------------------------- device-list parser
\* A line of ffmpeg's diagnostic text is a sequence of pieces: single
\* characters, and the fixed phrases of the avfoundation listing.
IndevTag == "AVFoundation indev @ 0x7f"
AudioMarker == "AVFoundation audio devices:"
VideoMarker == "AVFoundation video devices:"
OtherMarker == "AVFoundation screen devices:"

\* "[AVFoundation indev @ 0x7f] ", the prefix ffmpeg puts on listing lines.
Prefix == <<"[", IndevTag, "]", " ">>

\* str::contains
Contains(line, pat) ==
    \E k \in 1..(Len(line) - Len(pat) + 1) :
        SubSeq(line, k, k + Len(pat) - 1) = pat

\* str::rfind(c) and str::find(c), as positions from 1; 0 is None.
RFind(line, c) ==
    LET hits == {k \in 1..Len(line) : line[k] = c}
    IN IF hits = {} THEN 0 ELSE CHOOSE k \in hits : \A j \in hits : j <= k

Find(line, c) ==
    LET hits == {k \in 1..Len(line) : line[k] = c}
    IN IF hits = {} THEN 0 ELSE CHOOSE k \in hits : \A j \in hits : k <= j

IsDigit(c) == \E d \in 1..10 : Digits[d] = c

DigitValue(c) == (CHOOSE d \in 1..10 : Digits[d] = c) - 1

RECURSIVE DecimalValue(_)
DecimalValue(ds) ==
    IF ds = <<>> THEN 0
    ELSE 10 * DecimalValue(SubSeq(ds, 1, Len(ds) - 1)) + DigitValue(ds[Len(ds)])

\* The digits of u32::MAX, 4294967295; a digit string fits a u32 when, leading
\* zeros aside, it is shorter, or as long and not after it in digit order.
U32MaxDigits == <<4, 2, 9, 4, 9, 6, 7, 2, 9, 5>>

RECURSIVE StripZeros(_)
StripZeros(ds) ==
    IF ds # <<>> /\ Head(ds) = "0" THEN StripZeros(Tail(ds)) ELSE ds

FitsU32(ds) ==
    LET sig == StripZeros(ds)
        n == Len(U32MaxDigits)
    IN \/ Len(sig) < n
       \/ /\ Len(sig) = n
          /\ ~\E k \in 1..n :
                /\ DigitValue(sig[k]) > U32MaxDigits[k]
                /\ \A j \in 1..(k - 1) : DigitValue(sig[j]) = U32MaxDigits[j]

\* Variant: text that is not a number reads as index 0.
ParseU32_Lenient(index_str) ==
    LET ds == IF index_str # <<>> /\ index_str[1] = "+" THEN Tail(index_str)
              ELSE index_str
    IN IF ds # <<>> /\ (\A k \in 1..Len(ds) : IsDigit(ds[k])) /\ FitsU32(ds)
       THEN <<DecimalValue(ds)>>
       ELSE <<0>>

\* str::parse::<u32>(): Ok(n) is <<n>>, Err is <<>>.
ParseU32(index_str) ==
    LET ds == IF index_str # <<>> /\ index_str[1] = "+" THEN Tail(index_str)
              ELSE index_str
    IN IF ds # <<>> /\ (\A k \in 1..Len(ds) : IsDigit(ds[k])) /\ FitsU32(ds)
       THEN <<DecimalValue(ds)>>
       ELSE <<>>

\* str::trim
RECURSIVE Trim(_)
Trim(text) ==
    IF text = <<>> THEN <<>>
    ELSE IF Head(text) = " " THEN Trim(Tail(text))
    ELSE IF text[Len(text)] = " " THEN Trim(SubSeq(text, 1, Len(text) - 1))
    ELSE text

\* AudioDevice { index, name }
AudioDevice(index, name) == [index |-> index, name |-> name]

\* The device a line of the audio section names: Some is <<device>>.
DeviceOf(line) ==
    LET last_open_bracket == RFind(line, "[")
        rest == SubSeq(line, last_open_bracket, Len(line))
        closing_bracket == Find(rest, "]")
        index_str == SubSeq(rest, 2, closing_bracket - 1)
        index == ParseU32(index_str)
        name_start == last_open_bracket + closing_bracket
        name == Trim(SubSeq(line, name_start, Len(line)))
    IN IF last_open_bracket = 0 \/ closing_bracket = 0 \/ index = <<>>
          \/ name_start > Len(line) \/ name = <<>>
       THEN <<>>
       ELSE <<AudioDevice(index[1], name)>>

\* Variant: only the end of the text ends the audio section.
EndsSection_Never(line, in_audio_section, devices) == FALSE

\* The condition under which a line clears in_audio_section.
EndsSection(line, in_audio_section, devices) ==
    \/ Contains(line, <<VideoMarker>>)
    \/ /\ Contains(line, <<"[", IndevTag>>)
       /\ ~in_audio_section
       /\ Len(devices) > 0

\* One turn of the loop over stderr.lines().
ParseLine(st, line) ==
    IF Contains(line, <<AudioMarker>>)
    THEN [st EXCEPT !.in_audio_section = TRUE]
    ELSE LET in_audio_section ==
                 st.in_audio_section
                    /\ ~EndsSection(line, st.in_audio_section, st.devices)
             found == IF in_audio_section /\ Contains(line, <<"[", IndevTag>>)
                         /\ Contains(line, <<"[">>)
                      THEN DeviceOf(line) ELSE <<>>
         IN [in_audio_section |-> in_audio_section,
             devices |-> st.devices \o found]

RECURSIVE ParseLines(_, _)
ParseLines(st, lines) ==
    IF lines = <<>> THEN st
    ELSE ParseLines(ParseLine(st, Head(lines)), Tail(lines))

\* The devices the loop collects from a whole diagnostic text.
ParseDevices(lines) ==
    ParseLines([in_audio_section |-> FALSE, devices |-> <<>>], lines).devices

\* Lines of a listing.  A device line carries the index and name it was
\* written from.
AudioMarkerLine == Prefix \o <<AudioMarker>>
VideoMarkerLine == Prefix \o <<VideoMarker>>

\* The heading of a further device category, neither audio nor video.
OtherMarkerLine == Prefix \o <<OtherMarker>>

DeviceLines ==
    {[line |-> Prefix \o <<"[", "0", "]", " ", "a">>,
      index |-> 0, name |-> <<"a">>],
     [line |-> Prefix \o <<"[", "1", "2", "]", " ", "b", " ", "c", " ">>,
      index |-> 12, name |-> <<"b", " ", "c">>]}

MalformedLines ==
    {<<"a">>,                                       \* no bracket at all
     Prefix \o <<"a">>,                             \* no index token
     Prefix \o <<"[", "0">>,                        \* index token not closed
     Prefix \o <<"[", "x", "]", " ", "a">>,         \* index not a number
     Prefix \o <<"[", "0", "]", " ", "a", " ", "[", "x", "]">>,
     Prefix \o <<"[", "0", "]", " ">>}              \* name empty once trimmed

Lines == {AudioMarkerLine, VideoMarkerLine, OtherMarkerLine}
             \cup {d.line : d \in DeviceLines} \cup MalformedLines

Transcripts == UNION {[1..n -> Lines] : n \in 0..MaxLines}

\* Results of list_audio_devices.
NotListed == [tag |-> "none", devices |-> <<>>]

AudioDeviceList(devices) == [tag |-> "AudioDeviceList", devices |-> devices]

ListFailure(tag) == [tag |-> tag, devices |-> <<>>]

\* ------------------------------------------------------------ file export
ExportPaths == {"in.mp4", "out.mp4"}
Bytes == 0..MaxByte
Contents == UNION {[1..n -> Bytes] : n \in 0..MaxBytes}

Absent == [exists |-> FALSE, data |-> <<>>]

File(data) == [exists |-> TRUE, data |-> data]

FileSystems == [ExportPaths -> {Absent} \cup {File(c) : c \in Contents}]

\* Variant: an existing destination is opened without being truncated.
FileCreate_Keep(fsys, path) ==
    IF fsys[path].exists THEN fsys ELSE [fsys EXCEPT ![path] = File(<<>>)]

\* fs::File::create: the file exists and is empty; the handle is at offset 0.
FileCreate(fsys, path) == [fsys EXCEPT ![path] = File(<<>>)]

\* Bytes written through the handle land after what it has written so far.
FileWrite(fsys, path, data) ==
    [fsys EXCEPT ![path] = File(fsys[path].data \o data)]

\* Results of export_video.
NoExportResult == [tag |-> "none", output_path |-> "none"]

ExportResult(destination_path) ==
    [tag |-> "ExportResult", output_path |-> destination_path]

ExportFailure(step) == [tag |-> step, output_path |-> "none"]

\* The call in progress: its arguments and locals, the steps it has made (each
\* <<step, succeeded>>) and the file system it started from.
NoExport == [pc |-> "idle", source_path |-> "none", destination_path |-> "none",
             source_data |-> <<>>, ops |-> <<>>,
             before |-> [p \in ExportPaths |-> Absent],
             res |-> NoExportResult]

\* ------------------------------------------------------------- results
NoRes == [tag |-> "none", process_id |-> 0, path |-> None,
          status |-> "none", text |-> "none"]

\* Ok(RecordingResult { process_id, output_path })
RecordingResult(pid, path) == [NoRes EXCEPT !.tag = "Recording",
                                            !.process_id = pid, !.path = path]

\* Err("FFmpeg exited immediately with status {:?}[. Error output: {}]")
ImmediateExit(error_output) ==
    [NoRes EXCEPT !.tag = "ImmediateExit", !.status = "status",
                  !.text = error_output]

\* Err("Recording process with ID {} not found")
NotFound(pid) == [NoRes EXCEPT !.tag = "NotFound", !.process_id = pid]

\* Ok(StopRecordingResult { success: true, file_path, .. })
Saved(path) == [NoRes EXCEPT !.tag = "Saved", !.path = path]

\* Err("Recording file exists but is empty (0 bytes). ... Stderr: {}")
EmptyOutput(stderr_output) ==
    [NoRes EXCEPT !.tag = "EmptyOutput",
                  !.text = IF stderr_output = "none" THEN "No error output"
                           ELSE stderr_output]

\* Err("Recording file not found at '{}'.\n{error_details}"), error_details
\* from match wait_result
MissingOutput(path, wait_result, stderr_output) ==
    [NoRes EXCEPT !.tag = "MissingOutput", !.path = path,
                  !.status = IF wait_result = "ok" THEN "status" ELSE "waitfail",
                  !.text = IF wait_result = "ok" THEN stderr_output ELSE "none"]

Failure(tag) == [NoRes EXCEPT !.tag = tag]

\* ------------------------------------------------------------- threads
Idle == [pc |-> "idle", op |-> "none", id |-> 0, child |-> 0, path |-> None,
         wait_result |-> "none", serr |-> "none", seen |-> "none",
         signal |-> "none", settled |-> FALSE, res |-> NoRes]

Return(t, r) == [th[t] EXCEPT !.pc = "done", !.res = r]

\* ------------------------------------------------------ operating system
\* pipe is what the subprocess has written on its stderr pipe and nobody has
\* read; blocked is set while it waits in a write on the full pipe.
FreeProc == [pid |-> 0, st |-> "free", probe |-> "none", stops |-> 0,
             sigs |-> {}, users |-> {}, pipe |-> 0, blocked |-> FALSE]

NewProc(pid) == [FreeProc EXCEPT !.pid = pid, !.st = "running"]

\* What an exited encoder has left at its output path: no file, a zero-length
\* file, or a file with data.  The path is inspected only after the exit, so
\* the file is fixed by then; seen = "none" while it has not been inspected.
FileStates == {"absent", "empty", "data"}

Inspect(seen) == IF seen = "none" THEN FileStates ELSE {seen}

Live == {i \in Handles : procs[i].st \in {"running", "zombie"}}

\* Process ids of subprocesses not yet reaped stay allocated.
FreePids == Pids \ {procs[i].pid : i \in Live}

FreeHandles == {i \in Handles : procs[i].st = "free"}

\* The unreaped subprocess that owns a process id (a signal goes to the id).
Owner(pid) == {j \in Live : procs[j].pid = pid}

\* What a read_to_string of the child's stderr pipe can yield.
StderrTexts == {"none", "diag"}

\* --------------------------------------------------------------- registry
\* HashMap<u32, (Child, String)>, kept as a function over the whole id space;
\* an id that is not a key maps to NoEntry.
NoEntry == [child |-> 0, path |-> None]

Keys(reg) == {p \in Pids : reg[p] # NoEntry}

\* Variant: the insertion rebuilds the map around the new entry.
RegistryInsert_Replace(reg, pid, child, path) ==
    [p \in Pids |-> IF p = pid THEN [child |-> child, path |-> path]
                    ELSE NoEntry]

\* HashMap::insert
RegistryInsert(reg, pid, child, path) ==
    [reg EXCEPT ![pid] = [child |-> child, path |-> path]]

\* Variant: the entry is looked up but left in the map.
RegistryRemove_Keep(reg, pid) == reg

\* Variant: the call empties the map.
RegistryRemove_Clear(reg, pid) == [p \in Pids |-> NoEntry]

\* HashMap::remove (the map after the call)
RegistryRemove(reg, pid) == [reg EXCEPT ![pid] = NoEntry]

Registered == {registry[p].child : p \in Keys(registry)}

Init ==
    /\ registry = [p \in Pids |-> NoEntry]
    /\ lock = 0
    /\ procs = [i \in Handles |-> FreeProc]
    /\ th = [t \in Threads |-> Idle]
    /\ unix \in BOOLEAN
    /\ returned = <<>>
    /\ stopIssued = FALSE
    /\ pipIn = NoInput
    /\ pipArgs = <<>>
    /\ stderr = <<>>
    /\ listed = NotListed
    /\ files = [p \in ExportPaths |-> Absent]
    /\ exp = NoExport

\* ------------------------------------------------- encoder subprocesses
\* Variant: the registry drops the session of an encoder that exits.
ProcExit_Unregisters(i) ==
    /\ procs[i].st = "running"
    /\ procs' = [procs EXCEPT ![i].st = "zombie"]
    /\ registry' = [p \in Pids |-> IF registry[p].child = i THEN NoEntry
                                    ELSE registry[p]]
    /\ UNCHANGED <<lock, th, unix, returned, stopIssued, standalone>>

\* A running encoder exits on its own (a crash, or its answer to SIGINT).
ProcExit(i) ==
    /\ procs[i].st = "running"
    /\ procs' = [procs EXCEPT ![i].st = "zombie"]
    /\ UNCHANGED <<registry, lock, th, unix, returned, stopIssued, standalone>>

\* ------------------------------------------------------ start commands
\* Output path, the "ffmpeg -version" check, the command line, the spawn, and
\* the start of the 200 ms probe sleep.
Spawn(t, mode, output_path, ts) ==
    /\ th[t].pc = "idle"
    /\ LET output == OutputPath(output_path, mode, ts) IN
       \/ /\ th' = [th EXCEPT ![t] = [Return(t, Failure("ToolUnavailable"))
                                        EXCEPT !.op = "start"]]
          /\ UNCHANGED procs
       \/ /\ th' = [th EXCEPT ![t] = [Return(t, Failure("LaunchFailure"))
                                        EXCEPT !.op = "start"]]
          /\ UNCHANGED procs
       \/ /\ FreeHandles # {}
          /\ LET i == CHOOSE h \in FreeHandles : \A g \in FreeHandles : h <= g IN
             /\ \E pid \in FreePids :
                   procs' = [procs EXCEPT ![i] = NewProc(pid)]
             /\ th' = [th EXCEPT ![t] = [@ EXCEPT !.pc = "probe_sleep",
                                                  !.op = "start",
                                                  !.child = i, !.path = output]]
    /\ UNCHANGED <<registry, lock, unix, returned, stopIssued, standalone>>

start_screen_recording(t) ==
    \E output_path \in PathOptions, ts \in Timestamps :
        Spawn(t, "recording", output_path, ts)

start_webcam_recording(t) ==
    \E output_path \in PathOptions, ts \in Timestamps :
        Spawn(t, "webcam", output_path, ts)

start_screen_webcam_recording(t) ==
    \E output_path \in PathOptions, ts \in Timestamps :
        Spawn(t, "pip", output_path, ts)

\* Variant: the Err arm of the probe does not return.
StartProbe_ErrFallsThrough(t) ==
    /\ th[t].pc = "probe_sleep"
    /\ LET i == th[t].child IN
       \/ /\ procs[i].st = "zombie"
          /\ procs' = [procs EXCEPT ![i].st = "reaped", ![i].probe = "exited",
                                    ![i].pipe = 0, ![i].blocked = FALSE]
          /\ \E error_output \in StderrTexts :
                th' = [th EXCEPT ![t] = [Return(t, ImmediateExit(error_output))
                                           EXCEPT !.serr = error_output]]
       \/ /\ procs[i].st = "running"
          /\ procs' = [procs EXCEPT ![i].probe = "alive"]
          /\ th' = [th EXCEPT ![t].pc = "start_lock"]
       \/ /\ procs' = [procs EXCEPT ![i].probe = "error"]
          /\ th' = [th EXCEPT ![t].pc = "start_lock"]
    /\ UNCHANGED <<registry, lock, unix, returned, stopIssued, standalone>>

\* Variant: the Ok(Some(status)) arm of the probe does not return.
StartProbe_ExitFallsThrough(t) ==
    /\ th[t].pc = "probe_sleep"
    /\ LET i == th[t].child IN
       \/ /\ procs[i].st = "zombie"
          /\ procs' = [procs EXCEPT ![i].st = "reaped", ![i].probe = "exited"]
          /\ th' = [th EXCEPT ![t].pc = "start_lock"]
       \/ /\ procs[i].st = "running"
          /\ procs' = [procs EXCEPT ![i].probe = "alive"]
          /\ th' = [th EXCEPT ![t].pc = "start_lock"]
       \/ /\ procs' = [procs EXCEPT ![i].probe = "error"]
          /\ th' = [th EXCEPT ![t] = Return(t, Failure("ProbeError"))]
    /\ UNCHANGED <<registry, lock, unix, returned, stopIssued, standalone>>

\* The probe sleep ends: match child.try_wait()
StartProbe(t) ==
    /\ th[t].pc = "probe_sleep"
    /\ LET i == th[t].child IN
       \/ \* Ok(Some(status)): exited; read stderr, return the error
          /\ procs[i].st = "zombie"
          /\ procs' = [procs EXCEPT ![i].st = "reaped", ![i].probe = "exited",
                                    ![i].pipe = 0, ![i].blocked = FALSE]
          /\ \E error_output \in StderrTexts :
                th' = [th EXCEPT ![t] = [Return(t, ImmediateExit(error_output))
                                           EXCEPT !.serr = error_output]]
       \/ \* Ok(None): still running
          /\ procs[i].st = "running"
          /\ procs' = [procs EXCEPT ![i].probe = "alive"]
          /\ th' = [th EXCEPT ![t].pc = "start_lock"]
       \/ \* Err(e): the status query itself failed
          /\ procs' = [procs EXCEPT ![i].probe = "error"]
          /\ th' = [th EXCEPT ![t] = Return(t, Failure("ProbeError"))]
    /\ UNCHANGED <<registry, lock, unix, returned, stopIssued, standalone>>

\* RECORDING_PROCESSES.lock(), processes.insert(process_id, (child, output)),
\* Ok(RecordingResult); the child is moved into the map and the guard is
\* dropped on return.
StartInsert(t) ==
    /\ th[t].pc = "start_lock"
    /\ lock = 0
    /\ LET i == th[t].child
           process_id == procs[i].pid
       IN /\ registry' = RegistryInsert(registry, process_id, i, th[t].path)
          /\ returned' = IF stopIssued THEN returned
                         ELSE Append(returned, [process_id |-> process_id,
                                                output_path |-> th[t].path])
          /\ th' = [th EXCEPT ![t] =
                      [Return(t, RecordingResult(process_id, th[t].path))
                         EXCEPT !.child = 0]]
    /\ UNCHANGED <<lock, procs, unix, stopIssued, standalone>>

\* The command's result reaches the caller and its locals are dropped: the
\* handle of a reaped subprocess is gone.  The thread takes the next request.
Finish(t) ==
    /\ th[t].pc = "done"
    /\ th' = [th EXCEPT ![t] = Idle]
    /\ LET i == th[t].child IN
       procs' = IF i # 0 /\ procs[i].st = "reaped" /\ i \notin Registered
                THEN [procs EXCEPT ![i] = FreeProc]
                ELSE procs
    /\ UNCHANGED <<registry, lock, unix, returned, stopIssued, standalone>>

\* ---------------------------------------------------- stop_screen_recording
\* A request to stop the session with this identifier arrives and waits for
\* the registry lock.
stop_screen_recording(t) ==
    /\ th[t].pc = "idle"
    /\ \E process_id \in Pids :
          th' = [th EXCEPT ![t] = [@ EXCEPT !.pc = "stop_lock", !.op = "stop",
                                            !.id = process_id]]
    /\ stopIssued' = TRUE
    /\ returned' = <<>>
    /\ UNCHANGED <<registry, lock, procs, unix, standalone>>

\* RECORDING_PROCESSES.lock() and processes.remove(&process_id).ok_or_else(..)?
\* A miss returns (dropping the guard); on a hit the entry's child and path
\* become locals, the guard stays alive until the function returns, and
\* cfg(unix) decides where the sequence goes next.
StopRemove(t) ==
    /\ th[t].pc = "stop_lock"
    /\ lock = 0
    /\ LET process_id == th[t].id
           removed == registry[process_id]
       IN /\ registry' = RegistryRemove(registry, process_id)
          /\ IF removed = NoEntry
             THEN /\ th' = [th EXCEPT ![t] = Return(t, NotFound(process_id))]
                  /\ UNCHANGED <<procs, lock>>
             ELSE /\ th' = [th EXCEPT ![t] =
                              [@ EXCEPT !.pc = IF unix THEN "signal" ELSE "kill",
                                        !.child = removed.child,
                                        !.path = removed.path]]
                  /\ procs' = [procs EXCEPT ![removed.child].stops = @ + 1]
                  /\ lock' = t
    /\ UNCHANGED <<unix, returned, stopIssued, standalone>>

\* Variant: a signal that cannot be delivered fails the stop.
StopSignal_FailureReturns(t) ==
    /\ th[t].pc = "signal"
    /\ LET i == th[t].child IN
       \/ /\ \E j \in Owner(procs[i].pid) :
                /\ procs' = [procs EXCEPT ![j].sigs = @ \cup {<<"SIGINT", i>>},
                                          ![j].users = @ \cup {t}]
                /\ th' = [th EXCEPT ![t] = [@ EXCEPT !.pc = "grace_sleep",
                                                     !.signal = "sent"]]
          /\ UNCHANGED lock
       \/ /\ th' = [th EXCEPT ![t] = [Return(t, Failure("SignalFailure"))
                                        EXCEPT !.signal = "failed"]]
          /\ lock' = 0
          /\ UNCHANGED procs
    /\ UNCHANGED <<registry, unix, returned, stopIssued, standalone>>

\* nix::sys::signal::kill(Pid::from_raw(child.id()), SIGINT).is_ok(); when it
\* is, the 500 ms grace sleep starts.
StopSignal(t) ==
    /\ th[t].pc = "signal"
    /\ LET i == th[t].child IN
       \/ \E j \in Owner(procs[i].pid) :
             /\ procs' = [procs EXCEPT ![j].sigs = @ \cup {<<"SIGINT", i>>},
                                       ![j].users = @ \cup {t}]
             /\ th' = [th EXCEPT ![t] = [@ EXCEPT !.pc = "grace_sleep",
                                                  !.signal = "sent"]]
       \/ /\ th' = [th EXCEPT ![t] = [@ EXCEPT !.pc = "kill",
                                               !.signal = "failed"]]
          /\ UNCHANGED procs
    /\ UNCHANGED <<registry, lock, unix, returned, stopIssued, standalone>>

\* The grace sleep ends: match child.try_wait()
StopTryWait(t) ==
    /\ th[t].pc = "grace_sleep"
    /\ LET i == th[t].child IN
       \/ \* Ok(Some(_)): exited; success when the output path exists
          /\ procs[i].st \in {"zombie", "reaped"}
          /\ procs' = [procs EXCEPT ![i].st = "reaped", ![i].users = @ \cup {t}]
          /\ \E file \in Inspect(th[t].seen) :
                IF file # "absent"
                THEN /\ th' = [th EXCEPT ![t] = [Return(t, Saved(th[t].path))
                                                   EXCEPT !.seen = file]]
                     /\ lock' = 0
                ELSE /\ th' = [th EXCEPT ![t] = [@ EXCEPT !.pc = "kill",
                                                          !.seen = file]]
                     /\ UNCHANGED lock
       \/ \* Ok(None): still running
          /\ procs[i].st = "running"
          /\ procs' = [procs EXCEPT ![i].users = @ \cup {t}]
          /\ th' = [th EXCEPT ![t].pc = "kill"]
          /\ UNCHANGED lock
       \/ \* Err(e): logged
          /\ th' = [th EXCEPT ![t].pc = "kill"]
          /\ UNCHANGED <<procs, lock>>
    /\ UNCHANGED <<registry, unix, returned, stopIssued, standalone>>

\* Variant: the forced termination signals the process id, whatever holds it.
StopKill_ByPid(t) ==
    /\ th[t].pc = "kill"
    /\ LET i == th[t].child IN
       procs' = [j \in Handles |->
                    IF j \in Owner(procs[i].pid)
                    THEN [procs[j] EXCEPT !.st = "zombie",
                                          !.sigs = @ \cup {<<"SIGKILL", i>>},
                                          !.users = @ \cup {t}]
                    ELSE procs[j]]
    /\ th' = [th EXCEPT ![t].pc = "wait"]
    /\ UNCHANGED <<registry, lock, unix, returned, stopIssued, standalone>>

\* Variant: the forced termination sends nothing.
StopKill_NoSignal(t) ==
    /\ th[t].pc = "kill"
    /\ th' = [th EXCEPT ![t].pc = "wait"]
    /\ UNCHANGED <<registry, lock, procs, unix, returned, stopIssued, standalone>>

\* let _ = child.kill(): SIGKILL, unless the handle already holds an exit
\* status; a running subprocess dies.
StopKill(t) ==
    /\ th[t].pc = "kill"
    /\ LET i == th[t].child IN
       procs' = IF i \in Live
                THEN [procs EXCEPT ![i].st = "zombie",
                                   ![i].sigs = @ \cup {<<"SIGKILL", i>>},
                                   ![i].users = @ \cup {t}]
                ELSE procs
    /\ th' = [th EXCEPT ![t].pc = "wait"]
    /\ UNCHANGED <<registry, lock, unix, returned, stopIssued, standalone>>

\* let wait_result = child.wait(); stderr.read_to_string(&mut stderr_output);
\* then the 1000 ms settle sleep starts.
StopWait(t) ==
    /\ th[t].pc = "wait"
    /\ LET i == th[t].child IN
       \E stderr_output \in StderrTexts :
          \/ \* Ok(status)
             /\ procs[i].st \in {"zombie", "reaped"}
             /\ procs' = [procs EXCEPT ![i].st = "reaped", ![i].users = @ \cup {t},
                                       ![i].pipe = 0, ![i].blocked = FALSE]
             /\ th' = [th EXCEPT ![t] = [@ EXCEPT !.pc = "settle",
                                                  !.wait_result = "ok",
                                                  !.serr = stderr_output]]
          \/ \* Err(e)
             /\ procs' = [procs EXCEPT ![i].users = @ \cup {t},
                                       ![i].pipe = 0, ![i].blocked = FALSE]
             /\ th' = [th EXCEPT ![t] = [@ EXCEPT !.pc = "settle",
                                                  !.wait_result = "err",
                                                  !.serr = stderr_output]]
    /\ UNCHANGED <<registry, lock, unix, returned, stopIssued, standalone>>

\* The result decided from the output file after the settle interval.
Verdict(file, path, wait_result, stderr_output) ==
    CASE file = "data" -> Saved(path)
      [] file = "empty" -> EmptyOutput(stderr_output)
      [] file = "absent" -> MissingOutput(path, wait_result, stderr_output)

\* Variant: the guard outlives the call.
StopVerify_KeepsLock(t) ==
    /\ th[t].pc = "settle"
    /\ \E file \in Inspect(th[t].seen) :
          th' = [th EXCEPT ![t] =
                   [Return(t, Verdict(file, th[t].path, th[t].wait_result,
                                      th[t].serr))
                      EXCEPT !.seen = file, !.settled = TRUE]]
    /\ UNCHANGED <<registry, lock, procs, unix, returned, stopIssued, standalone>>

\* The settle sleep ends: Path::exists, fs::metadata().len(), and the return;
\* the guard is dropped.
StopVerify(t) ==
    /\ th[t].pc = "settle"
    /\ \E file \in Inspect(th[t].seen) :
          th' = [th EXCEPT ![t] =
                   [Return(t, Verdict(file, th[t].path, th[t].wait_result,
                                      th[t].serr))
                      EXCEPT !.seen = file, !.settled = TRUE]]
    /\ lock' = 0
    /\ UNCHANGED <<registry, procs, unix, returned, stopIssued, standalone>>

\* ------------------------------------------------------------ specification
Next ==
    \/ \E t \in Threads : start_screen_recording(t)
    \/ \E t \in Threads : start_webcam_recording(t)
    \/ \E t \in Threads : start_screen_webcam_recording(t)
    \/ \E t \in Threads : StartProbe(t)
    \/ \E t \in Threads : StartInsert(t)
    \/ \E t \in Threads : stop_screen_recording(t)
    \/ \E t \in Threads : StopRemove(t)
    \/ \E t \in Threads : StopSignal(t)
    \/ \E t \in Threads : StopTryWait(t)
    \/ \E t \in Threads : StopKill(t)
    \/ \E t \in Threads : StopWait(t)
    \/ \E t \in Threads : StopVerify(t)
    \/ \E t \in Threads : Finish(t)
    \/ \E i \in Handles : ProcExit(i)

Spec == Init /\ [][Next]_vars

\* Fair scheduling of the stop sequence: a thread that can make its next step
\* makes it (the sleeps end, and kill, wait on a killed subprocess, and the
\* file checks return), and a thread that finds the registry lock free again
\* and again gets it.
Fairness ==
    \A t \in Threads :
        /\ SF_vars(StopRemove(t))
        /\ WF_vars(StopSignal(t))
        /\ WF_vars(StopTryWait(t))
        /\ WF_vars(StopKill(t))
        /\ WF_vars(StopWait(t))
        /\ WF_vars(StopVerify(t))

\* The stop sequence under fair scheduling, against sessions of the screen
\* recording command (the three start commands differ only in the command
\* line and the default file name).
NextFair ==
    \/ \E t \in Threads : start_screen_recording(t)
    \/ \E t \in Threads : StartProbe(t)
    \/ \E t \in Threads : StartInsert(t)
    \/ \E t \in Threads : stop_screen_recording(t)
    \/ \E t \in Threads : StopRemove(t)
    \/ \E t \in Threads : StopSignal(t)
    \/ \E t \in Threads : StopTryWait(t)
    \/ \E t \in Threads : StopKill(t)
    \/ \E t \in Threads : StopWait(t)
    \/ \E t \in Threads : StopVerify(t)
    \/ \E t \in Threads : Finish(t)
    \/ \E i \in Handles : ProcExit(i)

SpecFair == Init /\ [][NextFair]_vars /\ Fairness

\* The encoder prints on its stderr, which the start commands made a pipe
\* (.stderr(Stdio::piped())): the text stays in the pipe until it is read, and
\* a write on the full pipe blocks the encoder.
ProcWriteStderr(i) ==
    /\ procs[i].st = "running"
    /\ ~procs[i].blocked
    /\ procs' = IF procs[i].pipe < PipeCap
                THEN [procs EXCEPT ![i].pipe = @ + 1]
                ELSE [procs EXCEPT ![i].blocked = TRUE]
    /\ UNCHANGED <<registry, lock, th, unix, returned, stopIssued, standalone>>

\* Sessions of the screen recording command, with what the encoder prints on
\* its stderr pipe.
NextStderr ==
    \/ NextFair
    \/ \E i \in Handles : ProcWriteStderr(i)

SpecStderr == Init /\ [][NextStderr]_vars

\* The PiP command builder on its own: any options, then the command built.
\* No session activity: the state the stand-alone commands run against.
Quiet ==
    /\ registry = [p \in Pids |-> NoEntry]
    /\ lock = 0
    /\ procs = [i \in Handles |-> FreeProc]
    /\ th = [t \in Threads |-> Idle]
    /\ unix = TRUE
    /\ returned = <<>>
    /\ stopIssued = FALSE

InitPip ==
    /\ Quiet
    /\ pipIn \in PipInputs
    /\ pipArgs = <<>>
    /\ stderr = <<>>
    /\ listed = NotListed
    /\ files = [p \in ExportPaths |-> Absent]
    /\ exp = NoExport

BuildPip ==
    /\ pipArgs = <<>>
    /\ pipArgs' = PipCommand(pipIn)
    /\ UNCHANGED <<session, pipIn, stderr, listed, files, exp>>

NextPip == BuildPip

SpecPip == InitPip /\ [][NextPip]_vars

\* The device enumerator on its own: any diagnostic text, then one call.
InitDevices ==
    /\ Quiet
    /\ pipIn = NoInput
    /\ pipArgs = <<>>
    /\ stderr \in Transcripts
    /\ listed = NotListed
    /\ files = [p \in ExportPaths |-> Absent]
    /\ exp = NoExport

\* list_audio_devices: the "ffmpeg -version" check, the listing run, and the
\* parse of what the run printed on stderr.
list_audio_devices ==
    /\ listed = NotListed
    /\ \/ listed' = ListFailure("ToolUnavailable")
       \/ listed' = ListFailure("RunFailure")
       \/ listed' = AudioDeviceList(ParseDevices(stderr))
    /\ UNCHANGED <<session, pipIn, pipArgs, stderr, files, exp>>

NextDevices == list_audio_devices

SpecDevices == InitDevices /\ [][NextDevices]_vars

\* File export on its own: any two files, then export calls one after another.
InitExport ==
    /\ Quiet
    /\ pipIn = NoInput
    /\ pipArgs = <<>>
    /\ stderr = <<>>
    /\ listed = NotListed
    /\ files \in FileSystems
    /\ exp = NoExport

export_video ==
    /\ exp.pc = "idle"
    /\ \E source_path \in ExportPaths, destination_path \in ExportPaths :
          exp' = [NoExport EXCEPT !.pc = "read", !.source_path = source_path,
                                  !.destination_path = destination_path,
                                  !.before = files]
    /\ UNCHANGED <<session, pipIn, pipArgs, stderr, listed, files>>

\* Variant: a failed read goes on with no data.
ExportRead_ErrFallsThrough ==
    /\ exp.pc = "read"
    /\ \/ /\ files[exp.source_path].exists
          /\ exp' = [exp EXCEPT !.pc = "create",
                                !.source_data = files[exp.source_path].data,
                                !.ops = Append(@, <<"read", TRUE>>)]
       \/ exp' = [exp EXCEPT !.pc = "create",
                             !.ops = Append(@, <<"read", FALSE>>)]
    /\ UNCHANGED <<session, pipIn, pipArgs, stderr, listed, files>>

\* fs::read(&source_path).map_err(..)?
ExportRead ==
    /\ exp.pc = "read"
    /\ \/ /\ files[exp.source_path].exists
          /\ exp' = [exp EXCEPT !.pc = "create",
                                !.source_data = files[exp.source_path].data,
                                !.ops = Append(@, <<"read", TRUE>>)]
       \/ exp' = [exp EXCEPT !.pc = "done", !.res = ExportFailure("read"),
                             !.ops = Append(@, <<"read", FALSE>>)]
    /\ UNCHANGED <<session, pipIn, pipArgs, stderr, listed, files>>

\* fs::File::create(&destination_path).map_err(..)?
ExportCreate ==
    /\ exp.pc = "create"
    /\ \/ /\ files' = FileCreate(files, exp.destination_path)
          /\ exp' = [exp EXCEPT !.pc = "write",
                                !.ops = Append(@, <<"create", TRUE>>)]
       \/ /\ exp' = [exp EXCEPT !.pc = "done", !.res = ExportFailure("create"),
                                !.ops = Append(@, <<"create", FALSE>>)]
          /\ UNCHANGED files
    /\ UNCHANGED <<session, pipIn, pipArgs, stderr, listed>>

\* dest_file.write_all(&source_data).map_err(..)?  A failing write may have
\* put a part of the data in the file; an empty buffer is never written.
ExportWrite ==
    /\ exp.pc = "write"
    /\ \/ /\ files' = FileWrite(files, exp.destination_path, exp.source_data)
          /\ exp' = [exp EXCEPT !.pc = "sync",
                                !.ops = Append(@, <<"write", TRUE>>)]
       \/ /\ \E k \in 0..(Len(exp.source_data) - 1) :
                files' = FileWrite(files, exp.destination_path,
                                   SubSeq(exp.source_data, 1, k))
          /\ exp' = [exp EXCEPT !.pc = "done", !.res = ExportFailure("write"),
                                !.ops = Append(@, <<"write", FALSE>>)]
    /\ UNCHANGED <<session, pipIn, pipArgs, stderr, listed>>

\* dest_file.sync_all().map_err(..)?, then Ok(ExportResult { .. })
ExportSync ==
    /\ exp.pc = "sync"
    /\ \/ exp' = [exp EXCEPT !.pc = "done",
                             !.res = ExportResult(exp.destination_path),
                             !.ops = Append(@, <<"sync", TRUE>>)]
       \/ exp' = [exp EXCEPT !.pc = "done", !.res = ExportFailure("sync"),
                             !.ops = Append(@, <<"sync", FALSE>>)]
    /\ UNCHANGED <<session, pipIn, pipArgs, stderr, listed, files>>

\* The result reaches the caller; the next export can be requested.
ExportReturn ==
    /\ exp.pc = "done"
    /\ exp' = NoExport
    /\ UNCHANGED <<session, pipIn, pipArgs, stderr, listed, files>>

NextExport ==
    \/ export_video
    \/ ExportRead
    \/ ExportCreate
    \/ ExportWrite
    \/ ExportSync
    \/ ExportReturn

SpecExport == InitExport /\ [][NextExport]_vars

\* ------------------------------------------------------------------ claims
\* A stop call that found its identifier in the registry (it holds the child).
Stopping(t) == th[t].op = "stop" /\ th[t].child # 0

StopDone(t) == Stopping(t) /\ th[t].pc = "done"

\* C1: a registered session is removed by at most one stop call, which alone
\* runs the stop sequence on it; every stop call that did not remove the entry
\* returns the not-found failure; so no subprocess handle is signalled or
\* waited on by two callers.
C1_OneStopPerSession ==
    /\ \A i \in Handles :
          procs[i].stops <= 1 /\ Cardinality(procs[i].users) <= 1
    /\ \A t, u \in Threads :
          (t # u /\ Stopping(t) /\ Stopping(u)) => th[t].child # th[u].child
    /\ \A t \in Threads :
          (th[t].op = "stop" /\ th[t].pc = "done" /\ th[t].child = 0)
              => th[t].res = NotFound(th[t].id)

\* Two stop calls named the same identifier: one ran the stop sequence, the
\* other got the not-found failure.
C1_Witness ==
    \E t, u \in Threads :
        /\ t # u
        /\ StopDone(t)
        /\ th[u].op = "stop" /\ th[u].pc = "done" /\ th[u].id = th[t].id
        /\ th[u].res.tag = "NotFound"

\* C2: a stop call whose identifier is not in the registry returns the
\* not-found failure in that step, signals no process and leaves the registry
\* exactly as it was.
C2_UnknownIdLeavesRegistry ==
    [][\A t \in Threads :
          (th[t].pc = "stop_lock" /\ th'[t].pc # "stop_lock"
             /\ th[t].id \notin Keys(registry))
          => /\ th'[t].pc = "done"
             /\ th'[t].res = NotFound(th[t].id)
             /\ registry' = registry
             /\ procs' = procs]_vars

\* A stop call returned not-found while another session stays registered.
C2_Witness ==
    \E t \in Threads :
        /\ th[t].op = "stop" /\ th[t].pc = "done"
        /\ th[t].res.tag = "NotFound"
        /\ Keys(registry) # {}
        /\ th[t].id \notin Keys(registry)

\* C3: every registry entry is keyed by the id of a spawned subprocess that
\* the liveness check, made after the probe grace interval, found running.
C3_InsertedAfterProbe ==
    \A p \in Keys(registry) :
        /\ procs[registry[p].child].st # "free"
        /\ procs[registry[p].child].pid = p
        /\ procs[registry[p].child].probe = "alive"

\* A session started in PiP mode and one started in another mode are
\* registered.
C3_Witness ==
    \E p, q \in Keys(registry) :
        registry[p].path[2] = "pip" /\ registry[q].path[2] # "pip"

\* C4: when the probe check finds the subprocess already exited, the start
\* returns the exited-immediately failure carrying the text read from the
\* diagnostic stream, the registry is left as it was, and that subprocess is
\* never registered and never taken by a stop.
C4_ImmediateExitNotRegistered ==
    /\ [](\A i \in Handles :
             procs[i].probe = "exited"
                => i \notin Registered /\ procs[i].stops = 0)
    /\ [][\A t \in Threads :
             (th[t].pc = "probe_sleep" /\ th'[t].pc # "probe_sleep"
                /\ procs'[th[t].child].probe = "exited")
             => /\ th'[t].pc = "done"
                /\ th'[t].res = ImmediateExit(th'[t].serr)
                /\ registry' = registry]_vars

\* A start failed with exited-immediately and diagnostic text while another
\* session is registered.
C4_Witness ==
    \E t \in Threads :
        /\ th[t].pc = "done" /\ th[t].res.tag = "ImmediateExit"
        /\ th[t].res.text = "diag"
        /\ procs[th[t].child].probe = "exited"
        /\ Keys(registry) # {}

\* C5: no subprocess of a session still in the registry has been sent a
\* graceful signal or a kill; a subprocess is signalled only after a stop call
\* removed its session.
C5_RemoveBeforeSignal ==
    /\ \A p \in Keys(registry) : procs[registry[p].child].sigs = {}
    /\ \A i \in Handles : procs[i].sigs # {} => procs[i].stops >= 1

\* A stop call has delivered the graceful signal to the subprocess of the
\* session it removed.
C5_Witness ==
    \E t \in Threads :
        /\ Stopping(t) /\ th[t].pc = "grace_sleep"
        /\ <<"SIGINT", th[t].child>> \in procs[th[t].child].sigs
        /\ th[t].id \notin Keys(registry)

\* C6 (as claimed): no request holds the registry lock while it signals,
\* sleeps in a grace or settle interval, kills, or waits for a subprocess.
C6_LockOnlyAroundMapOps ==
    \A t \in Threads :
        lock = t => th[t].pc \notin {"signal", "grace_sleep", "kill", "wait",
                                     "settle"}

\* C7 (as claimed): a stop of a registered session returns success exactly
\* when the output file it found is present and non-empty, and the
\* empty-output failure whenever the file is present but zero-length.
C7_SuccessIffNonEmpty ==
    \A t \in Threads :
        StopDone(t) =>
            /\ (th[t].res.tag = "Saved") <=> (th[t].seen = "data")
            /\ th[t].seen = "empty" => th[t].res = EmptyOutput(th[t].serr)

\* C8 (as claimed): a stop of a registered session that finds no output file
\* returns the missing-output failure naming the path, with the exit status
\* and the captured diagnostic text.
C8_MissingReportsStatusAndText ==
    \A t \in Threads :
        (StopDone(t) /\ th[t].seen = "absent") =>
            /\ th[t].res.tag = "MissingOutput"
            /\ th[t].res.path = th[t].path
            /\ th[t].res.status = "status"
            /\ th[t].res.text = th[t].serr

\* C9: while no stop has been issued, the registry holds exactly one entry
\* per successful start, under the identifier returned to that caller and
\* with the output path returned to it.
C9_OneEntryPerStart ==
    ~stopIssued =>
        /\ Cardinality(Keys(registry)) = Len(returned)
        /\ \A k \in 1..Len(returned) :
              /\ returned[k].process_id \in Keys(registry)
              /\ registry[returned[k].process_id].path = returned[k].output_path

\* Two starts of different modes have returned success and no stop was issued.
C9_Witness ==
    /\ ~stopIssued
    /\ Len(returned) >= 2
    /\ returned[1].output_path # returned[2].output_path

\* The overlay expression in the -filter_complex argument of a built command.
Overlay(args) == args[18][6]

\* C10: the PiP overlay expression is W-w-10:H-h-10 for bottom-right,
\* 10:H-h-10 for bottom-left, W-w-10:10 for top-right, 10:10 for top-left, and
\* the bottom-right offsets for an absent or unrecognized position.
C10_OverlayByPosition ==
    pipArgs # <<>> =>
        LET pos == pipIn.pip_position IN
        /\ pipArgs[17] = <<"-filter_complex">>
        /\ pos = <<"bottom-right">> => Overlay(pipArgs) = "W-w-10:H-h-10"
        /\ pos = <<"bottom-left">> => Overlay(pipArgs) = "10:H-h-10"
        /\ pos = <<"top-right">> => Overlay(pipArgs) = "W-w-10:10"
        /\ pos = <<"top-left">> => Overlay(pipArgs) = "10:10"
        /\ pos \notin {<<"bottom-right">>, <<"bottom-left">>, <<"top-right">>,
                       <<"top-left">>}
              => Overlay(pipArgs) = "W-w-10:H-h-10"

\* A command was built for a position string that names no corner.
C10_Witness ==
    /\ pipArgs # <<>>
    /\ pipIn.pip_position = <<"Top-Left">>
    /\ Overlay(pipArgs) = "W-w-10:H-h-10"

\* The device a well-formed device line was written from.
Written(line) ==
    LET d == CHOOSE e \in DeviceLines : e.line = line
    IN AudioDevice(d.index, d.name)

\* The text is an audio marker, device lines, the video marker at line v, and
\* device lines after it.
Listing(lines, v) ==
    /\ lines[1] = AudioMarkerLine
    /\ lines[v] = VideoMarkerLine
    /\ \A k \in 2..Len(lines) : k # v => \E d \in DeviceLines : lines[k] = d.line

\* C11: for a diagnostic text made of the audio marker, well-formed device
\* lines, the video marker and video device lines, the parser returns exactly
\* the audio-section devices, as (index, name) pairs in the order met, and
\* none of the video-section lines.
C11_AudioSectionOnly ==
    listed.tag = "AudioDeviceList" =>
        \A v \in 2..Len(stderr) :
            Listing(stderr, v) =>
                listed.devices = [k \in 1..(v - 2) |-> Written(stderr[k + 1])]

\* Two different audio devices, then a video section with a device line.
C11_Witness ==
    /\ listed.tag = "AudioDeviceList"
    /\ Len(stderr) = 5
    /\ Listing(stderr, 4)
    /\ stderr[2] # stderr[3]
    /\ listed.devices = <<Written(stderr[2]), Written(stderr[3])>>

NotMalformed(line) == line \notin MalformedLines

\* C12: the parse never fails on the text (only the tool being missing or not
\* running fails the call); a text without the audio marker gives the empty
\* list; and lines with no bracketed token, with a last bracketed token that
\* is not a number, or with an empty name are skipped: the devices are those
\* of the text without such lines.
C12_MalformedLinesSkipped ==
    /\ listed.tag \in {"none", "AudioDeviceList", "ToolUnavailable", "RunFailure"}
    /\ listed.tag = "AudioDeviceList" =>
          /\ (\A k \in 1..Len(stderr) : ~Contains(stderr[k], <<AudioMarker>>))
                => listed.devices = <<>>
          /\ listed.devices = ParseDevices(SelectSeq(stderr, NotMalformed))

\* Malformed lines stand between the audio marker and a device line, which
\* is the one device returned.
C12_Witness ==
    /\ listed.tag = "AudioDeviceList"
    /\ Len(stderr) = 5
    /\ stderr[1] = AudioMarkerLine
    /\ \A k \in 2..4 : stderr[k] \in MalformedLines
    /\ stderr[2] # stderr[3] /\ stderr[3] # stderr[4]
    /\ \E d \in DeviceLines : stderr[5] = d.line
    /\ listed.devices = <<Written(stderr[5])>>

\* C13: when export_video returns success, the destination holds exactly the
\* bytes that were read from the source; an empty source gives an empty
\* destination and success.
C13_ExportCopiesSource ==
    (exp.pc = "done" /\ exp.res.tag = "ExportResult") =>
        /\ files[exp.destination_path] = File(exp.source_data)
        /\ exp.res.output_path = exp.destination_path

\* An empty source was exported with success over a destination that held data.
C13_Witness ==
    /\ exp.pc = "done" /\ exp.res.tag = "ExportResult"
    /\ exp.source_data = <<>>
    /\ exp.before[exp.destination_path].data # <<>>
    /\ files[exp.destination_path] = File(<<>>)

\* The steps of an export, in the order of the code.
ExportSteps == <<"read", "create", "write", "sync">>

\* C14: export_video reads, creates, writes and syncs in that order and makes
\* no step after a failed one; it returns success only when all four
\* succeeded and otherwise the error of the step that failed; after a failed
\* read the destination is neither created nor modified.
C14_AllOrFirstError ==
    LET n == Len(exp.ops) IN
    /\ n <= Len(ExportSteps)
    /\ \A k \in 1..n : exp.ops[k][1] = ExportSteps[k]
    /\ \A k \in 1..(n - 1) : exp.ops[k][2]
    /\ exp.pc # "done" => exp.res = NoExportResult
    /\ exp.pc = "done" =>
          /\ n >= 1
          /\ IF n = Len(ExportSteps) /\ exp.ops[n][2]
             THEN exp.res = ExportResult(exp.destination_path)
             ELSE /\ ~exp.ops[n][2]
                  /\ exp.res = ExportFailure(exp.ops[n][1])
    /\ (n >= 1 /\ ~exp.ops[1][2]) => files = exp.before

\* A read failed, the call returned that error, and the destination that
\* existed before still holds its data.
C14_Witness ==
    /\ exp.pc = "done"
    /\ exp.res = ExportFailure("read")
    /\ exp.source_path # exp.destination_path
    /\ files[exp.destination_path].data # <<>>
    /\ files = exp.before

\* A request that waits only for the registry lock: a start that passed its
\* probe, or a stop naming a registered session.
AtRegistry(u) ==
    \/ th[u].pc = "start_lock"
    \/ th[u].pc = "stop_lock" /\ th[u].id \in Keys(registry)

\* C15 (as claimed): while a stop is in its graceful-wait, process-wait or
\* settle interval, a stop of another registered session can enter its stop
\* sequence and a start that passed its probe can register.
C15_UnrelatedNotBlocked ==
    \A t, u \in Threads :
        (/\ t # u
         /\ Stopping(t) /\ th[t].pc \in {"grace_sleep", "wait", "settle"}
         /\ AtRegistry(u))
        => ENABLED (StartInsert(u) \/ StopRemove(u))

\* C16: when a stop call returns for a session it removed, the subprocess is
\* not running: the grace check saw it exited, or it was killed (unless it had
\* exited already) and waited for.
C16_ExitedBeforeReturn ==
    \A t \in Threads :
        StopDone(t) =>
            LET i == th[t].child IN
            /\ procs[i].st # "running"
            /\ th[t].wait_result = "none" => procs[i].st = "reaped"
            /\ th[t].wait_result # "none" =>
                  (<<"SIGKILL", i>> \in procs[i].sigs \/ procs[i].st = "reaped")

\* A stop returned after it killed the subprocess and waited for it.
C16_Witness ==
    \E t \in Threads :
        /\ StopDone(t)
        /\ <<"SIGKILL", th[t].child>> \in procs[th[t].child].sigs
        /\ th[t].wait_result = "ok"
        /\ procs[th[t].child].st = "reaped"

\* C17 (as claimed): a stop of a registered session inspects the output path,
\* and returns a result, only after the settle interval has elapsed.
C17_InspectAfterSettle ==
    \A t \in Threads :
        /\ (Stopping(t) /\ th[t].seen # "none") => th[t].settled
        /\ StopDone(t) => th[t].settled

\* C18 (as claimed): with the graceful signal available, a stop still makes
\* the wait and the settle that follow the signalling step, and returns a
\* result that the forced-only sequence returns for the same output file.
C18_GracefulIsCapabilityOnly ==
    \A t \in Threads :
        (unix /\ StopDone(t)) =>
            /\ th[t].wait_result # "none"
            /\ th[t].settled
            /\ \E wait_result \in {"ok", "err"}, stderr_output \in StderrTexts :
                  th[t].res = Verdict(th[t].seen, th[t].path, wait_result,
                                      stderr_output)

\* C19: a stop whose graceful signal could not be delivered goes on to the
\* forced termination, the wait and the settle, and returns the result the
\* output file decides; the signal failure is never the result.
C19_SignalFailureNotReturned ==
    \A t \in Threads :
        (Stopping(t) /\ th[t].signal = "failed") =>
            /\ th[t].pc \in {"kill", "wait", "settle", "done"}
            /\ th[t].pc = "done" =>
                  /\ th[t].wait_result # "none"
                  /\ th[t].settled
                  /\ th[t].res = Verdict(th[t].seen, th[t].path,
                                         th[t].wait_result, th[t].serr)

\* A stop whose signal was not delivered returned success for a file with data.
C19_Witness ==
    \E t \in Threads :
        /\ StopDone(t)
        /\ th[t].signal = "failed"
        /\ th[t].seen = "data"
        /\ th[t].res = Saved(th[t].path)

\* C20: a registry entry changes only by being removed, in the step of a stop
\* request that names its identifier and takes its child; no start, no stop of
\* another identifier and no exit of the subprocess removes or replaces it.
C20_LeavesOnlyByStop ==
    [][\A p \in Keys(registry) :
          registry'[p] # registry[p] =>
              /\ registry'[p] = NoEntry
              /\ \E t \in Threads :
                    /\ th[t].pc = "stop_lock" /\ th[t].id = p
                    /\ th'[t].child = registry[p].child]_vars

\* A session whose encoder exited on its own is still registered after a stop
\* of another session ran and returned.
C20_Witness ==
    \E p \in Keys(registry), t \in Threads :
        /\ procs[registry[p].child].st = "zombie"
        /\ StopDone(t) /\ th[t].id # p

\* The text is an audio marker, at least one device line, the heading of a
\* further device category at line m, and device lines after it.
ListingWithOther(lines, m) ==
    /\ m >= 3
    /\ lines[1] = AudioMarkerLine
    /\ lines[m] = OtherMarkerLine
    /\ \A k \in 2..Len(lines) : k # m => \E d \in DeviceLines : lines[k] = d.line

\* C21 (as claimed): the heading of a further device category that comes
\* after at least one audio device ends the audio section: device lines that
\* follow it are not returned.
C21_OtherMarkerEndsSection ==
    listed.tag = "AudioDeviceList" =>
        \A m \in 3..Len(stderr) :
            ListingWithOther(stderr, m) =>
                listed.devices = [k \in 1..(m - 2) |-> Written(stderr[k + 1])]

\* C22: under fair scheduling, and with a killed subprocess exiting, every
\* stop_screen_recording call returns a result; none waits forever for the
\* registry lock held by another stop.
C22_StopReturns ==
    \A t \in Threads : (th[t].pc = "stop_lock") ~> (th[t].pc = "done")

\* A stop call waits for the registry lock while another stop, which holds
\* it, waits for its subprocess.
C22_Witness ==
    \E t, u \in Threads :
        /\ th[t].pc = "stop_lock"
        /\ lock = u /\ th[u].pc = "wait"

\* C23: every signal a subprocess has received, graceful or forced, was sent
\* by a stop call for that very subprocess, after the call removed its
\* session: a process that got the identifier of a reaped subprocess is never
\* signalled in its place.
C23_SignalsOnlyOwnChild ==
    \A j \in Handles :
        /\ \A s \in procs[j].sigs : s[2] = j
        /\ procs[j].sigs # {} => procs[j].stops = 1

\* A stop call has passed its kill step for a subprocess the grace check had
\* reaped, while a new subprocess with the same identifier runs unsignalled.
C23_Witness ==
    \E t \in Threads, j \in Handles :
        /\ Stopping(t) /\ th[t].pc = "wait"
        /\ j # th[t].child
        /\ procs[th[t].child].st = "reaped"
        /\ procs[j].st = "running"
        /\ procs[j].pid = procs[th[t].child].pid
        /\ procs[j].sigs = {}

\* A start or stop call that has not yet decided its result holds the handle.
InProgress(i) ==
    \E t \in Threads : th[t].child = i /\ th[t].pc \notin {"idle", "done"}

\* C24 (as claimed): every running subprocess is registered or held by a
\* start or stop call still in progress; a start that returned a failure has
\* left no encoder running.
C24_NoOrphanEncoder ==
    /\ \A i \in Handles :
          procs[i].st = "running" => (i \in Registered \/ InProgress(i))
    /\ \A t \in Threads :
          (th[t].op = "start" /\ th[t].pc = "done" /\ th[t].child # 0)
              => procs[th[t].child].st # "running"

\* C25 (as claimed): while a session is registered and its encoder runs, the
\* encoder is never blocked in a write on its full diagnostic pipe.
C25_EncoderNeverBlocked ==
    \A p \in Keys(registry) :
        LET i == registry[p].child
        IN ~(procs[i].st = "running" /\ procs[i].blocked)
====
